---- MODULE Spec2Model ----
(***************************************************************************)
(* Model of the JSON-RPC request/response core of clightningrpc            *)
(* (src/src/lib.rs): the Request and Response value types, their derived   *)
(* serde encoding to and from strason::Json, and the extraction operations *)
(* Response::result, into_result, check_error and is_none.                 *)
(***************************************************************************)
EXTENDS Integers, Sequences, FiniteSets, TLC

VARIABLES
    response,   \* the Response value the caller holds
    original,   \* the Response as constructed (history variable)
    alive,      \* FALSE once a consuming method (self by value) has moved it
    last,       \* the most recent extraction call and what it returned
    first,      \* per target type, what the first result::<T>() call returned
    calls,      \* number of extraction calls made so far
    request,    \* the Request value the caller holds
    wire,       \* the strason::Json value in flight, with where it came from
    decoded     \* what into_deserialize made of the wire value

vars == <<response, original, alive, last, first, calls, request, wire, decoded>>

(***************************************************************************)
(* Bounds of the model.                                                    *)
(***************************************************************************)
MaxArrLen == 2     \* longest Json array drawn as a payload
MaxCalls == 3      \* extraction calls made on one Response

(***************************************************************************)
(* strason::Json: null, bool, number, string, array, object.  Every value  *)
(* is a record of the same shape; k is the variant, a holds the elements   *)
(* of an array and o the <<key, value>> members of an object, in order.    *)
(***************************************************************************)
JNull == [k |-> "null", b |-> FALSE, n |-> 0, s |-> "", a |-> <<>>, o |-> <<>>]
JBool(x) == [k |-> "bool", b |-> x, n |-> 0, s |-> "", a |-> <<>>, o |-> <<>>]
JNum(x) == [k |-> "num", b |-> FALSE, n |-> x, s |-> "", a |-> <<>>, o |-> <<>>]
JStr(x) == [k |-> "str", b |-> FALSE, n |-> 0, s |-> x, a |-> <<>>, o |-> <<>>]
JArr(x) == [k |-> "arr", b |-> FALSE, n |-> 0, s |-> "", a |-> x, o |-> <<>>]
JObj(x) == [k |-> "obj", b |-> FALSE, n |-> 0, s |-> "", a |-> <<>>, o |-> x]

\* Option<Json>, Option<String>
NoneJson == [some |-> FALSE, v |-> JNull]
SomeJson(x) == [some |-> TRUE, v |-> x]
NoneStr == [some |-> FALSE, v |-> ""]
SomeStr(x) == [some |-> TRUE, v |-> x]

\* error::RpcError { code, message, data: Option<Json> }
RpcError(c, m, d) == [code |-> c, message |-> m, data |-> d]
NoRpcError == RpcError(0, "", NoneJson)
NoneErr == [some |-> FALSE, v |-> NoRpcError]
SomeErr(e) == [some |-> TRUE, v |-> e]

\* struct Request, struct Response
Request(m, p, i, j) == [method |-> m, params |-> p, id |-> i, jsonrpc |-> j]
Response(r, e, i, j) == [result |-> r, error |-> e, id |-> i, jsonrpc |-> j]

\* #[derive(Clone)]: a field-for-field copy
Clone(s) == [result |-> s.result, error |-> s.error, id |-> s.id, jsonrpc |-> s.jsonrpc]

(***************************************************************************)
(* Target types T of result::<T>() / into_result::<T>() and the decoding   *)
(* of a Json value into each (Json::into_deserialize).  A decoded value is *)
(* written as the Json value that denotes it.                              *)
(***************************************************************************)
Types == {"bool", "String", "Vec<String>", "()", "Json"}

NoCause == [expected |-> "", found |-> ""]
Cause(t, v) == [expected |-> t, found |-> v.k]
DeOk(v) == [ok |-> TRUE, val |-> v, cause |-> NoCause]
DeErr(t, v) == [ok |-> FALSE, val |-> JNull, cause |-> Cause(t, v)]

into_deserialize(T, v) ==
    CASE T = "Json" -> DeOk(v)
      [] T = "bool" -> IF v.k = "bool" THEN DeOk(v) ELSE DeErr("bool", v)
      [] T = "String" -> IF v.k = "str" THEN DeOk(v) ELSE DeErr("String", v)
      [] T = "()" -> IF v.k = "null" THEN DeOk(v) ELSE DeErr("()", v)
      [] T = "Vec<String>" ->
            IF v.k # "arr" THEN DeErr("Vec<String>", v)
            ELSE IF \A i \in 1..Len(v.a) : v.a[i].k = "str" THEN DeOk(v)
            ELSE LET bad == CHOOSE i \in 1..Len(v.a) :
                               /\ v.a[i].k # "str"
                               /\ \A j \in 1..(i - 1) : v.a[j].k = "str"
                 IN DeErr("String", v.a[bad])

(***************************************************************************)
(* Result<T, Error>: Ok(v), Err(Error::Rpc(e)), Err(Error::Json(cause)),   *)
(* Err(Error::NoErrorOrResult).                                            *)
(***************************************************************************)
Ok(v) == [tag |-> "Ok", val |-> v, err |-> NoRpcError, cause |-> NoCause]
ErrRpc(e) == [tag |-> "Rpc", val |-> JNull, err |-> e, cause |-> NoCause]
ErrJson(c) == [tag |-> "Json", val |-> JNull, err |-> NoRpcError, cause |-> c]
ErrNoErrorOrResult ==
    [tag |-> "NoErrorOrResult", val |-> JNull, err |-> NoRpcError, cause |-> NoCause]

\* .map_err(Error::Json) applied to what into_deserialize returned
map_err_Json(d) == IF d.ok THEN Ok(d.val) ELSE ErrJson(d.cause)

(***************************************************************************)
(* impl Response                                                           *)
(***************************************************************************)
\* variant of result that looks at the result field before the error field
result_ResultFirst(s, T) ==
    IF s.result.some THEN map_err_Json(into_deserialize(T, s.result.v))
    ELSE IF s.error.some THEN ErrRpc(s.error.v)
    ELSE ErrNoErrorOrResult

\* variant of result that reports a failed decode as a missing payload
result_DecodeFailureAsNone(s, T) ==
    IF s.error.some THEN ErrRpc(s.error.v)
    ELSE IF s.result.some /\ into_deserialize(T, s.result.v).ok
         THEN Ok(into_deserialize(T, s.result.v).val)
    ELSE ErrNoErrorOrResult

\* pub fn result<T>(&self) -> Result<T, Error>
result(s, T) ==
    IF s.error.some THEN ErrRpc(s.error.v)
    ELSE IF s.result.some THEN map_err_Json(into_deserialize(T, s.result.v))
    ELSE ErrNoErrorOrResult

\* variant of result's receiver that moves the payload out of the Response
result_TakesPayload(s) == [s EXCEPT !.result = NoneJson]

\* result takes &self and decodes res.clone(): the Response it is called on
\* is the same afterwards
result_self(s) == s

\* variant of into_result that decodes a missing result as Json null
into_result_NoneAsNull(s, T) ==
    IF s.error.some THEN ErrRpc(s.error.v)
    ELSE IF s.result.some THEN map_err_Json(into_deserialize(T, s.result.v))
    ELSE map_err_Json(into_deserialize(T, JNull))

\* variant of into_result that drops the error's data when it is moved out
into_result_DropsData(s, T) ==
    IF s.error.some THEN ErrRpc(RpcError(s.error.v.code, s.error.v.message, NoneJson))
    ELSE IF s.result.some THEN map_err_Json(into_deserialize(T, s.result.v))
    ELSE ErrNoErrorOrResult

\* pub fn into_result<T>(self) -> Result<T, Error>
into_result(s, T) ==
    IF s.error.some THEN ErrRpc(s.error.v)
    ELSE IF s.result.some THEN map_err_Json(into_deserialize(T, s.result.v))
    ELSE ErrNoErrorOrResult

\* variant of check_error that also fails when there is no result
check_error_ChecksResult(s) ==
    IF s.error.some THEN ErrRpc(s.error.v)
    ELSE IF s.result.some THEN Ok(JNull)
    ELSE ErrNoErrorOrResult

\* pub fn check_error(self) -> Result<(), Error>
check_error(s) == IF s.error.some THEN ErrRpc(s.error.v) ELSE Ok(JNull)

\* variant of is_none that is true only when the error is absent as well
is_none_NeitherField(s) == ~s.result.some /\ ~s.error.some

\* pub fn is_none(&self) -> bool
is_none(s) == ~s.result.some

(***************************************************************************)
(* The values the model draws.                                             *)
(***************************************************************************)
RECURSIVE SeqsUpTo(_, _)
SeqsUpTo(S, n) ==
    IF n = 0 THEN {<<>>}
    ELSE LET shorter == SeqsUpTo(S, n - 1)
         IN shorter \cup {Append(q, x) : q \in {r \in shorter : Len(r) = n - 1}, x \in S}

ArrElems == {JNull, JStr("lamb")}
Arrays == {JArr(q) : q \in SeqsUpTo(ArrElems, MaxArrLen)}
Payloads == {JNull, JBool(TRUE), JStr("test2"), JNum(101)} \cup Arrays
Datas == {NoneJson, SomeJson(JNull), SomeJson(JBool(TRUE)), SomeJson(JArr(<<JNull, JStr("lamb")>>))}
RpcErrors == {RpcError(-77, "test4", d) : d \in Datas}
Ids == {JNull, JNum(101)}
Versions == {NoneStr, SomeStr("2.0")}

Responses ==
    {Response(r, e, i, j) :
        r \in {NoneJson} \cup {SomeJson(v) : v \in Payloads},
        e \in {NoneErr} \cup {SomeErr(x) : x \in RpcErrors},
        i \in Ids, j \in Versions}

DefaultRequest == Request("test", JNull, JNull, NoneStr)
DefaultResponse == Response(NoneJson, NoneErr, JNull, NoneStr)

NotCalled == [tag |-> "NotCalled", val |-> JNull, err |-> NoRpcError, cause |-> NoCause]
NoCall == [op |-> "none", ty |-> "", out |-> NotCalled, b |-> FALSE, cloned |-> FALSE]
NoWire == [from |-> "none", json |-> JNull]
NoDecoded == [of |-> "none", ok |-> FALSE, req |-> DefaultRequest, resp |-> DefaultResponse, why |-> ""]

(***************************************************************************)
(* A caller holding one Response and calling its methods, on the Response  *)
(* itself or on a clone of it.                                             *)
(***************************************************************************)
Init ==
    /\ response \in Responses
    /\ original = response
    /\ alive = TRUE
    /\ last = NoCall
    /\ first = [T \in Types |-> NotCalled]
    /\ calls = 0
    /\ request = DefaultRequest
    /\ wire = NoWire
    /\ decoded = NoDecoded

Target(onClone) == IF onClone THEN Clone(response) ELSE response

CallResult(T, onClone) ==
    /\ alive
    /\ calls < MaxCalls
    /\ LET out == result(Target(onClone), T)
       IN /\ last' = [op |-> "result", ty |-> T, out |-> out, b |-> FALSE, cloned |-> onClone]
          /\ first' = IF first[T] = NotCalled THEN [first EXCEPT ![T] = out] ELSE first
    /\ response' = IF onClone THEN response ELSE result_self(response)
    /\ calls' = calls + 1
    /\ UNCHANGED <<original, alive, request, wire, decoded>>

CallIsNone ==
    /\ alive
    /\ calls < MaxCalls
    /\ last' = [op |-> "is_none", ty |-> "", out |-> NotCalled, b |-> is_none(response), cloned |-> FALSE]
    /\ calls' = calls + 1
    /\ UNCHANGED <<response, original, alive, first, request, wire, decoded>>

CallIntoResult(T, onClone) ==
    /\ alive
    /\ calls < MaxCalls
    /\ last' = [op |-> "into_result", ty |-> T, out |-> into_result(Target(onClone), T),
                b |-> FALSE, cloned |-> onClone]
    /\ alive' = onClone
    /\ calls' = calls + 1
    /\ UNCHANGED <<response, original, first, request, wire, decoded>>

CallCheckError(onClone) ==
    /\ alive
    /\ calls < MaxCalls
    /\ last' = [op |-> "check_error", ty |-> "()", out |-> check_error(Target(onClone)),
                b |-> FALSE, cloned |-> onClone]
    /\ alive' = onClone
    /\ calls' = calls + 1
    /\ UNCHANGED <<response, original, first, request, wire, decoded>>

Next ==
    \/ \E T \in Types, c \in BOOLEAN : CallResult(T, c)
    \/ CallIsNone
    \/ \E T \in Types, c \in BOOLEAN : CallIntoResult(T, c)
    \/ \E c \in BOOLEAN : CallCheckError(c)

Spec == Init /\ [][Next]_vars

(***************************************************************************)
(* Properties of the extraction operations, checked under Spec.            *)
(***************************************************************************)
Extracted == last.op \in {"result", "into_result"}

\* C1: when the Response's error is present, result<T>() and into_result<T>()
\* return Err(Error::Rpc(e)) with e the Response's error (code, message and
\* data), whatever the result field holds; never Ok, Json or NoErrorOrResult.
C1_ErrorPrecedence ==
    (Extracted /\ original.error.some) =>
        /\ last.out = ErrRpc(original.error.v)
        /\ last.out.tag \notin {"Ok", "Json", "NoErrorOrResult"}

\* C1 witness: result<T>() has run on a Response holding both an error with
\* data and a result that decodes into T.
C1_Witness ==
    /\ last.op = "result"
    /\ original.error.some
    /\ original.error.v.data.some
    /\ original.result.some
    /\ into_deserialize(last.ty, original.result.v).ok
    /\ last.out.tag = "Rpc"

\* C2: with result and error both absent, result<T>() and into_result<T>()
\* return Err(Error::NoErrorOrResult) and is_none() returns true; and
\* NoErrorOrResult is returned only for such a Response.
C2_NoPayload ==
    LET neither == ~original.result.some /\ ~original.error.some
    IN /\ (Extracted /\ neither) => last.out = ErrNoErrorOrResult
       /\ (last.op = "is_none" /\ neither) => last.b = TRUE
       /\ (Extracted /\ last.out.tag = "NoErrorOrResult") => neither
       /\ ErrNoErrorOrResult.tag \notin {"Rpc", "Json", "Ok"}

\* C2 witness: into_result::<()>() has run on a Response with neither field.
C2_Witness ==
    /\ last.op = "into_result"
    /\ last.ty = "()"
    /\ ~original.result.some
    /\ ~original.error.some
    /\ last.out.tag = "NoErrorOrResult"

\* C3: s.into_result::<T>() returns what s.clone().result::<T>() returns: the
\* same Ok payload or the same error kind with the same content.
C3_ConsumingEquivalence ==
    last.op = "into_result" =>
        /\ last.out = result(Clone(original), last.ty)
        /\ first[last.ty] # NotCalled => last.out = first[last.ty]

\* C3 witness: into_result::<T>() has consumed a Response carrying an error
\* with data, after result::<T>() had run for the same T.
C3_Witness ==
    /\ last.op = "into_result"
    /\ ~last.cloned
    /\ first[last.ty] # NotCalled
    /\ original.error.some
    /\ original.error.v.data.some

\* C4: check_error() returns Err(Error::Rpc(e)) with e the Response's error
\* exactly when error is present, and Ok(()) otherwise, whatever result holds.
C4_CheckError ==
    last.op = "check_error" =>
        /\ original.error.some => last.out = ErrRpc(original.error.v)
        /\ ~original.error.some => last.out = Ok(JNull)
        /\ (last.out.tag = "Rpc") = original.error.some

\* C4 witness: check_error() has returned Ok on a Response with neither field.
C4_Witness ==
    /\ last.op = "check_error"
    /\ ~original.error.some
    /\ ~original.result.some
    /\ last.out.tag = "Ok"

\* C5: is_none() is true exactly when result is absent, whether or not error
\* is present and whatever a present result holds.
C5_IsNone == last.op = "is_none" => (last.b = ~original.result.some)

\* C5 witness: is_none() has returned true on a Response whose result is
\* absent and whose error is present.
C5_Witness ==
    /\ last.op = "is_none"
    /\ last.b
    /\ original.error.some
    /\ ~original.result.some

\* C8: with error absent and result present, result<T>() and into_result<T>()
\* return Ok(v), v the decoding of result into T, when the decoding succeeds
\* and Err(Error::Json(cause)) with the decoder's cause when it fails; never
\* Rpc or NoErrorOrResult.
C8_ResultDecoding ==
    (Extracted /\ ~original.error.some /\ original.result.some) =>
        LET d == into_deserialize(last.ty, original.result.v)
        IN /\ d.ok => last.out = Ok(d.val)
           /\ ~d.ok => last.out = ErrJson(d.cause)
           /\ last.out.tag \in {"Ok", "Json"}

\* C8 witness: result::<Vec<String>>() has failed to decode an array that
\* holds a null.
C8_Witness ==
    /\ last.op = "result"
    /\ last.ty = "Vec<String>"
    /\ ~original.error.some
    /\ original.result.some
    /\ original.result.v.k = "arr"
    /\ last.out.tag = "Json"

\* C10: result<T>() and is_none() leave the Response as it was: its four
\* fields keep their values, a repeated result<T>() returns what the first
\* returned, and a later check_error() or into_result<T>() returns what it
\* returns on the original Response.
C10_NonConsumingFrame ==
    /\ response = original
    /\ last.op = "result" => last.out = first[last.ty]
    /\ last.op = "into_result" => last.out = into_result(original, last.ty)
    /\ last.op = "check_error" => last.out = check_error(original)

\* C10 witness: into_result<T>() has succeeded on the Response itself after
\* two earlier calls, one of them result<T>() for the same T.
C10_Witness ==
    /\ calls >= 3
    /\ last.op = "into_result"
    /\ ~last.cloned
    /\ first[last.ty] # NotCalled
    /\ last.out.tag = "Ok"

(***************************************************************************)
(* #[derive(Serialize, Deserialize)] on Request and Response, run through  *)
(* Json::from_serialize and Json::into_deserialize.  A struct is written   *)
(* as an object holding every field in declaration order, an Option that   *)
(* is None as null.  A struct is read from an object by key; an Option     *)
(* field that is missing or null reads as None.                            *)
(***************************************************************************)
Has(o, key) == \E i \in 1..Len(o) : o[i][1] = key
Get(o, key) == o[CHOOSE i \in 1..Len(o) : o[i][1] = key][2]
Duplicated(o) == \E i, j \in 1..Len(o) : i # j /\ o[i][1] = o[j][1]
IsNullMember(o, key) == Has(o, key) /\ Get(o, key) = JNull
Without(w, key) == JObj(SelectSeq(w.o, LAMBDA m : m[1] # key))

ser_opt_json(x) == IF x.some THEN x.v ELSE JNull
ser_opt_str(x) == IF x.some THEN JStr(x.v) ELSE JNull
de_opt_json(o, key) ==
    IF Has(o, key) /\ Get(o, key) # JNull THEN SomeJson(Get(o, key)) ELSE NoneJson
de_opt_str(o, key) ==
    IF Has(o, key) /\ Get(o, key) # JNull THEN SomeStr(Get(o, key).s) ELSE NoneStr
bad_opt_str(o, key) == Has(o, key) /\ Get(o, key).k \notin {"null", "str"}

RpcError_serialize(e) ==
    JObj(<< <<"code", JNum(e.code)>>, <<"message", JStr(e.message)>>,
            <<"data", ser_opt_json(e.data)>> >>)

RpcError_deserialize(w) ==
    IF /\ w.k = "obj"
       /\ ~Duplicated(w.o)
       /\ Has(w.o, "code") /\ Get(w.o, "code").k = "num"
       /\ Has(w.o, "message") /\ Get(w.o, "message").k = "str"
    THEN [ok |-> TRUE,
          e |-> RpcError(Get(w.o, "code").n, Get(w.o, "message").s, de_opt_json(w.o, "data"))]
    ELSE [ok |-> FALSE, e |-> NoRpcError]

ser_opt_err(x) == IF x.some THEN RpcError_serialize(x.v) ELSE JNull
de_opt_err(o, key) ==
    IF Has(o, key) /\ Get(o, key) # JNull
    THEN SomeErr(RpcError_deserialize(Get(o, key)).e) ELSE NoneErr
bad_opt_err(o, key) ==
    Has(o, key) /\ Get(o, key) # JNull /\ ~RpcError_deserialize(Get(o, key)).ok

DeRequest(r) == [of |-> "Request", ok |-> TRUE, req |-> r, resp |-> DefaultResponse, why |-> ""]
DeResponse(s) == [of |-> "Response", ok |-> TRUE, req |-> DefaultRequest, resp |-> s, why |-> ""]
DeFail(T, why) == [of |-> T, ok |-> FALSE, req |-> DefaultRequest, resp |-> DefaultResponse, why |-> why]

\* variant of Request's Serialize that writes the version tag when it is absent
Request_serialize_DefaultVersion(r) ==
    JObj(<< <<"method", JStr(r.method)>>, <<"params", r.params>>, <<"id", r.id>>,
            <<"jsonrpc", IF r.jsonrpc.some THEN JStr(r.jsonrpc.v) ELSE JStr("2.0")>> >>)

\* Json::from_serialize(&Request)
Request_serialize(r) ==
    JObj(<< <<"method", JStr(r.method)>>, <<"params", r.params>>, <<"id", r.id>>,
            <<"jsonrpc", ser_opt_str(r.jsonrpc)>> >>)

\* Json::into_deserialize::<Request>()
Request_deserialize(w) ==
    IF w.k # "obj" THEN DeFail("Request", "invalid type")
    ELSE IF Duplicated(w.o) THEN DeFail("Request", "duplicate field")
    ELSE IF ~Has(w.o, "method") THEN DeFail("Request", "missing field method")
    ELSE IF Get(w.o, "method").k # "str" THEN DeFail("Request", "invalid type")
    ELSE IF ~Has(w.o, "params") THEN DeFail("Request", "missing field params")
    ELSE IF ~Has(w.o, "id") THEN DeFail("Request", "missing field id")
    ELSE IF bad_opt_str(w.o, "jsonrpc") THEN DeFail("Request", "invalid type")
    ELSE DeRequest(Request(Get(w.o, "method").s, Get(w.o, "params"), Get(w.o, "id"),
                           de_opt_str(w.o, "jsonrpc")))

\* variant of Response's Serialize that leaves the id out
Response_serialize_SkipsId(s) ==
    JObj(<< <<"result", ser_opt_json(s.result)>>, <<"error", ser_opt_err(s.error)>>,
            <<"jsonrpc", ser_opt_str(s.jsonrpc)>> >>)

\* Json::from_serialize(&Response)
Response_serialize(s) ==
    JObj(<< <<"result", ser_opt_json(s.result)>>, <<"error", ser_opt_err(s.error)>>,
            <<"id", s.id>>, <<"jsonrpc", ser_opt_str(s.jsonrpc)>> >>)

\* variant of Response's Deserialize that reads a member carried as null as a
\* present null result
Response_deserialize_NullIsSome(w) ==
    IF w.k # "obj" THEN DeFail("Response", "invalid type")
    ELSE IF Duplicated(w.o) THEN DeFail("Response", "duplicate field")
    ELSE IF bad_opt_err(w.o, "error") THEN DeFail("Response", "invalid type")
    ELSE IF ~Has(w.o, "id") THEN DeFail("Response", "missing field id")
    ELSE IF bad_opt_str(w.o, "jsonrpc") THEN DeFail("Response", "invalid type")
    ELSE DeResponse(Response(IF Has(w.o, "result") THEN SomeJson(Get(w.o, "result")) ELSE NoneJson,
                             de_opt_err(w.o, "error"), Get(w.o, "id"),
                             de_opt_str(w.o, "jsonrpc")))

\* Json::into_deserialize::<Response>()
Response_deserialize(w) ==
    IF w.k # "obj" THEN DeFail("Response", "invalid type")
    ELSE IF Duplicated(w.o) THEN DeFail("Response", "duplicate field")
    ELSE IF bad_opt_err(w.o, "error") THEN DeFail("Response", "invalid type")
    ELSE IF ~Has(w.o, "id") THEN DeFail("Response", "missing field id")
    ELSE IF bad_opt_str(w.o, "jsonrpc") THEN DeFail("Response", "invalid type")
    ELSE DeResponse(Response(de_opt_json(w.o, "result"), de_opt_err(w.o, "error"),
                             Get(w.o, "id"), de_opt_str(w.o, "jsonrpc")))

(***************************************************************************)
(* Values on the wire.  A member is absent, null or one of a few values.   *)
(***************************************************************************)
Methods == {"test", "getinfo"}
Params == {JNull, JArr(<<>>),
           JObj(<< <<"a", JNull>>, <<"b", JBool(FALSE)>>, <<"d", JStr("test2")>> >>)}
RequestIds == {JNull, JStr("69"), JNum(101)}
Requests == {Request(m, p, i, j) : m \in Methods, p \in Params, i \in RequestIds, j \in Versions}

WireErrors ==
    {JNull, JStr("oops")} \cup
    {JObj(<< <<"code", JNum(-77)>>, <<"message", JStr("test4")>> >> \o d) :
        d \in {<<>>, << <<"data", JNull>> >>, << <<"data", JBool(TRUE)>> >>}}

OptMember(key, vals) == {<<>>} \cup {<< <<key, v>> >> : v \in vals}

ResponseWires ==
    {JObj(r \o e \o i \o j) :
        r \in OptMember("result", {JNull, JBool(TRUE), JArr(<<JStr("lamb")>>)}),
        e \in OptMember("error", WireErrors),
        i \in OptMember("id", {JNull, JNum(101)}),
        j \in OptMember("jsonrpc", {JNull, JStr("2.0"), JNum(2)})}

RequestWires ==
    {JObj(m \o p \o i \o j) :
        m \in OptMember("method", {JStr("test"), JNum(1)}),
        p \in OptMember("params", {JNull, JArr(<<>>)}),
        i \in OptMember("id", {JNull, JStr("69")}),
        j \in OptMember("jsonrpc", {JNull, JStr("2.0")})}

(***************************************************************************)
(* A Request or a Response is written to the wire and read back, or a wire *)
(* object arrives from the other side and is read.                         *)
(***************************************************************************)
InitWire ==
    /\ \/ request \in Requests /\ response = DefaultResponse
       \/ request = DefaultRequest /\ response \in Responses
    /\ original = response
    /\ alive = TRUE
    /\ last = NoCall
    /\ first = [T \in Types |-> NotCalled]
    /\ calls = 0
    /\ wire = NoWire
    /\ decoded = NoDecoded

SerializeRequest ==
    /\ wire = NoWire
    /\ wire' = [from |-> "Request", json |-> Request_serialize(request)]
    /\ UNCHANGED <<response, original, alive, last, first, calls, request, decoded>>

SerializeResponse ==
    /\ wire = NoWire
    /\ wire' = [from |-> "Response", json |-> Response_serialize(response)]
    /\ UNCHANGED <<response, original, alive, last, first, calls, request, decoded>>

ReceiveRequest(w) ==
    /\ wire = NoWire
    /\ request = DefaultRequest /\ response = DefaultResponse
    /\ wire' = [from |-> "client", json |-> w]
    /\ UNCHANGED <<response, original, alive, last, first, calls, request, decoded>>

ReceiveResponse(w) ==
    /\ wire = NoWire
    /\ request = DefaultRequest /\ response = DefaultResponse
    /\ wire' = [from |-> "daemon", json |-> w]
    /\ UNCHANGED <<response, original, alive, last, first, calls, request, decoded>>

DeserializeRequest ==
    /\ wire.from \in {"Request", "client"}
    /\ decoded = NoDecoded
    /\ decoded' = Request_deserialize(wire.json)
    /\ UNCHANGED <<response, original, alive, last, first, calls, request, wire>>

DeserializeResponse ==
    /\ wire.from \in {"Response", "daemon"}
    /\ decoded = NoDecoded
    /\ decoded' = Response_deserialize(wire.json)
    /\ UNCHANGED <<response, original, alive, last, first, calls, request, wire>>

NextWire ==
    \/ SerializeRequest
    \/ SerializeResponse
    \/ \E w \in RequestWires : ReceiveRequest(w)
    \/ \E w \in ResponseWires : ReceiveResponse(w)
    \/ DeserializeRequest
    \/ DeserializeResponse

SpecWire == InitWire /\ [][NextWire]_vars

(***************************************************************************)
(* Properties of the encoding, checked under SpecWire.                     *)
(***************************************************************************)
ResponseRoundTrip == wire.from = "Response" /\ decoded # NoDecoded
RequestRoundTrip == wire.from = "Request" /\ decoded # NoDecoded

\* a Response with every present-null result or error data made absent
NullsAsAbsent(s) ==
    Response(IF s.result = SomeJson(JNull) THEN NoneJson ELSE s.result,
             IF s.error.some /\ s.error.v.data = SomeJson(JNull)
             THEN SomeErr(RpcError(s.error.v.code, s.error.v.message, NoneJson))
             ELSE s.error,
             s.id, s.jsonrpc)

\* C6 as stated: decoding the encoding of any Response s, a present null
\* result included, yields a Response equal to s.
C6_ResponseRoundTripAny ==
    ResponseRoundTrip => (decoded.ok /\ decoded.resp = response)

\* C6 amended: decoding the encoding of a Response s succeeds and yields s
\* with a present-null result, and a present-null error data, made absent;
\* it yields s itself exactly when s holds neither.
C6_ResponseRoundTrip ==
    ResponseRoundTrip =>
        /\ decoded.ok
        /\ decoded.resp = NullsAsAbsent(response)
        /\ (decoded.resp = response) = (NullsAsAbsent(response) = response)

\* C6 witness: a Response with a result array, an error carrying structured
\* data and a version tag has been encoded and decoded back to itself.
C6_Witness ==
    /\ ResponseRoundTrip
    /\ response.result.some /\ response.result.v.k = "arr"
    /\ response.error.some /\ response.error.v.data.some
    /\ response.error.v.data.v.k = "arr"
    /\ response.jsonrpc.some
    /\ decoded.resp = response

\* C7: decoding the encoding of any Request r yields a Request equal to r
\* field for field; an absent jsonrpc comes back absent.
C7_RequestRoundTrip ==
    RequestRoundTrip =>
        /\ decoded.ok
        /\ decoded.req.method = request.method
        /\ decoded.req.params = request.params
        /\ decoded.req.id = request.id
        /\ decoded.req.jsonrpc = request.jsonrpc

\* C7 witness: a Request with object params and no jsonrpc has been encoded
\* and decoded.
C7_Witness ==
    /\ RequestRoundTrip
    /\ request.params.k = "obj"
    /\ ~request.jsonrpc.some
    /\ ~decoded.req.jsonrpc.some
    /\ wire.json.o[4] = <<"jsonrpc", JNull>>

OptionalFields == IF decoded.of = "Request" THEN {"jsonrpc"} ELSE {"result", "error", "jsonrpc"}
Deserialize(w) == IF decoded.of = "Request" THEN Request_deserialize(w) ELSE Response_deserialize(w)

\* C9 as stated: for result, error and jsonrpc a wire object that omits the
\* field and one that carries it as null decode to distinguishable values,
\* and a present null result is still present after encoding and decoding.
C9_ThreeState ==
    (decoded # NoDecoded /\ decoded.ok) =>
        /\ \A f \in OptionalFields :
              IsNullMember(wire.json.o, f) =>
                  Deserialize(wire.json) # Deserialize(Without(wire.json, f))
        /\ (ResponseRoundTrip /\ response.result = SomeJson(JNull)) => decoded.resp.result.some

\* C9 amended: a field that is absent and a field carried as null decode to
\* the same value, absent; a field carried with a non-null value decodes to
\* that value, present; so a present null result is absent after encoding
\* and decoding.
C9_TwoState ==
    (decoded # NoDecoded /\ decoded.ok) =>
        /\ \A f \in OptionalFields :
              IsNullMember(wire.json.o, f) =>
                  Deserialize(wire.json) = Deserialize(Without(wire.json, f))
        /\ decoded.of = "Response" =>
              /\ decoded.resp.result =
                    IF Has(wire.json.o, "result") /\ ~IsNullMember(wire.json.o, "result")
                    THEN SomeJson(Get(wire.json.o, "result")) ELSE NoneJson
              /\ decoded.resp.error.some =
                    (Has(wire.json.o, "error") /\ ~IsNullMember(wire.json.o, "error"))
              /\ decoded.resp.jsonrpc =
                    IF Has(wire.json.o, "jsonrpc") /\ ~IsNullMember(wire.json.o, "jsonrpc")
                    THEN SomeStr(Get(wire.json.o, "jsonrpc").s) ELSE NoneStr
        /\ decoded.of = "Request" =>
              decoded.req.jsonrpc =
                    IF Has(wire.json.o, "jsonrpc") /\ ~IsNullMember(wire.json.o, "jsonrpc")
                    THEN SomeStr(Get(wire.json.o, "jsonrpc").s) ELSE NoneStr
        /\ (ResponseRoundTrip /\ response.result = SomeJson(JNull)) =>
              decoded.resp.result = NoneJson

\* C9 witness: a Response whose result is a present null has been encoded
\* and decoded, and came back with result absent.
C9_Witness ==
    /\ ResponseRoundTrip
    /\ response.result = SomeJson(JNull)
    /\ decoded.ok
    /\ decoded.resp.result = NoneJson

====
